---- MODULE Spec2Model ----
(***************************************************************************)
(* Killer Cubes (KillerCubes.cpp): a marble-shooting game on the TL-Engine. *)
(* One frame of the main loop is one step: DrawScene, then Update().       *)
(*                                                                         *)
(* Lengths are counted in half units (1 = 0.5 world units), so that the    *)
(* marble speed 0.5f and every coordinate of the program is an integer.    *)
(* All coordinates of the program are small multiples of 0.5, which float  *)
(* represents exactly, so the integer arithmetic below is the program's.   *)
(***************************************************************************)
EXTENDS Integers, Sequences, FiniteSets

VARIABLES
    currentState,   \* GameState: "MENU", "GAME" (the phase PLAYING) or "OVER"
    marbles,        \* marbles[i] = [model |-> [x, y, z, visible], active]
    blocks,         \* blocks[row][j] = [x, y, z, visible, skin]
    blockStates,    \* blockStates[row][j]: "NORMAL", "HIT_ONCE" or "DEAD"
    gameOverText,   \* [visible]
    running,        \* engine->IsRunning()
    spaceHits,      \* the player's presses of SPACE in this game
    streak,         \* length of the current burst of presses (0: none)
    probe           \* a call of CheckCollision: [m1, m2, called, result]

vars == <<currentState, marbles, blocks, blockStates, gameOverText, running,
          spaceHits, streak, probe>>

\* The player: at most MaxShots presses of SPACE in one game (between two
\* restarts), except that a burst, SPACE hit in every frame from a frame that
\* starts with no marble active, may go on for MaxBurst frames. The program
\* itself sets no limit on either.
MaxShots == 5
MaxBurst == 18

\* Coordinates of the models CheckCollision is called on directly range over
\* 0 .. MaxCoord (half units) and heights over 0 .. MaxHeight.
MaxCoord == 4
MaxHeight == 1

\* One world unit in half units.
HalfUnits(n) == 2 * n

kNumBlocksPerRow == 5
kMaxMarbles == 3
\* 0.5f world units per frame = one half unit.
kMarbleSpeed == 1
kBlockWidth == HalfUnits(2)
kNumRows == 2

\* z > 30 removes a marble.
OutOfBoundsZ == HalfUnits(30)

\* A default radius of 2.0f.
WideRadius == HalfUnits(2)

\* CheckCollision's default radius, 1.0f.
DefaultRadius == HalfUnits(1)

Rows == 0 .. (kNumRows - 1)
Cols == 0 .. (kNumBlocksPerRow - 1)
MarbleIds == 0 .. (kMaxMarbles - 1)

GameState == {"MENU", "GAME", "OVER"}
BlockState == {"NORMAL", "HIT_ONCE", "DEAD"}

\* The program's mutable state as one value, for the sequential code below.
State ==
    [currentState |-> currentState, marbles |-> marbles, blocks |-> blocks,
     blockStates |-> blockStates, gameOverText |-> gameOverText,
     running |-> running]

\* IModel::SetPosition, SetVisible, MoveZ, SetSkin.
SetPosition(m, px, py, pz) == [m EXCEPT !.x = px, !.y = py, !.z = pz]
SetVisible(m, v) == [m EXCEPT !.visible = v]
MoveZ(m, dz) == [m EXCEPT !.z = @ + dz]
SetSkin(m, name) == [m EXCEPT !.skin = name]

\* blockMesh->CreateModel(i * kBlockWidth - 5.0f, 0, row * 5.0f + 10.0f)
BlockX(i) == i * kBlockWidth - HalfUnits(5)
BlockZ(row) == row * HalfUnits(5) + HalfUnits(10)

\* The state SetupScene leaves, with currentState's initialiser.
SetupScene ==
    [currentState |-> "MENU",
     marbles |-> [i \in MarbleIds |->
                    [model |-> [x |-> 0, y |-> 0, z |-> 0, visible |-> FALSE],
                     active |-> FALSE]],
     blocks |-> [row \in Rows |-> [i \in Cols |->
                    [x |-> BlockX(i), y |-> 0, z |-> BlockZ(row),
                     visible |-> TRUE, skin |-> "mesh"]]],
     blockStates |-> [row \in Rows |-> [i \in Cols |-> "NORMAL"]],
     gameOverText |-> [visible |-> FALSE],
     running |-> TRUE]

\* RestartGame without marbles[i].model->SetPosition(0, 0, 0).
RestartGameKeepPosition(s) ==
    [s EXCEPT
       !.marbles = [i \in MarbleIds |->
                      [model |-> SetVisible(s.marbles[i].model, FALSE),
                       active |-> FALSE]],
       !.blocks = [row \in Rows |-> [i \in Cols |->
                      SetVisible(SetSkin(SetPosition(s.blocks[row][i],
                                                     BlockX(i), 0, BlockZ(row)),
                                         "default.jpg"), TRUE)]],
       !.blockStates = [row \in Rows |-> [i \in Cols |-> "NORMAL"]],
       !.gameOverText = [visible |-> FALSE],
       !.currentState = "GAME"]

\* RestartGame without gameOverText->SetVisible(false).
RestartGameKeepText(s) ==
    [s EXCEPT
       !.marbles = [i \in MarbleIds |->
                      [model |-> SetPosition(SetVisible(s.marbles[i].model, FALSE), 0, 0, 0),
                       active |-> FALSE]],
       !.blocks = [row \in Rows |-> [i \in Cols |->
                      SetVisible(SetSkin(SetPosition(s.blocks[row][i],
                                                     BlockX(i), 0, BlockZ(row)),
                                         "default.jpg"), TRUE)]],
       !.blockStates = [row \in Rows |-> [i \in Cols |-> "NORMAL"]],
       !.currentState = "GAME"]

\* RestartGame(): the loops assign every slot, so they are written as maps.
RestartGame(s) ==
    [s EXCEPT
       !.marbles = [i \in MarbleIds |->
                      [model |-> SetPosition(SetVisible(s.marbles[i].model, FALSE), 0, 0, 0),
                       active |-> FALSE]],
       !.blocks = [row \in Rows |-> [i \in Cols |->
                      SetVisible(SetSkin(SetPosition(s.blocks[row][i],
                                                     BlockX(i), 0, BlockZ(row)),
                                         "default.jpg"), TRUE)]],
       !.blockStates = [row \in Rows |-> [i \in Cols |-> "NORMAL"]],
       !.gameOverText = [visible |-> FALSE],
       !.currentState = "GAME"]

\* The slots the for loop of ShootMarble finds inactive.
InactiveSlots(s) == {i \in MarbleIds : ~s.marbles[i].active}

\* The last inactive slot: the loop run without its break.
LastInactive(s) == CHOOSE i \in InactiveSlots(s) : \A k \in InactiveSlots(s) : i >= k

\* The first inactive slot: the loop breaks at it.
FirstInactive(s) == CHOOSE i \in InactiveSlots(s) : \A k \in InactiveSlots(s) : i <= k

\* ShootMarble without the break: every inactive slot is launched.
ShootMarbleNoBreak(s) ==
    [s EXCEPT !.marbles = [i \in MarbleIds |->
        IF s.marbles[i].active THEN s.marbles[i]
        ELSE [model |-> SetVisible(SetPosition(s.marbles[i].model, 0, 0, 0), TRUE),
              active |-> TRUE]]]

ShootMarble(s) ==
    IF InactiveSlots(s) = {} THEN s
    ELSE LET i == FirstInactive(s) IN
         [s EXCEPT !.marbles[i] =
             [model |-> SetVisible(SetPosition(s.marbles[i].model, 0, 0, 0), TRUE),
              active |-> TRUE]]

\* CheckCollision with distanceSq <= threshold * threshold.
CheckCollisionInclusive(m1, m2, radius) ==
    LET dx == m1.x - m2.x
        dz == m1.z - m2.z
        distanceSq == dx * dx + dz * dz
        threshold == radius * 2
    IN  distanceSq <= threshold * threshold

\* CheckCollision(m1, m2, radius): ground-plane distance, y never read.
CheckCollision(m1, m2, radius) ==
    LET dx == m1.x - m2.x
        dz == m1.z - m2.z
        distanceSq == dx * dx + dz * dz
        threshold == radius * 2
    IN  distanceSq < threshold * threshold

\* The blocks in the order the nested loops visit them: row 0 before row 1,
\* columns ascending.
BlockOrder == [k \in 1 .. (kNumRows * kNumBlocksPerRow) |->
                 <<(k - 1) \div kNumBlocksPerRow, (k - 1) % kNumBlocksPerRow>>]

\* Collides without the test blockStates[row][j] != DEAD.
CollidesAnyState(s, i, row, j) ==
    CheckCollision(s.marbles[i].model, s.blocks[row][j], DefaultRadius)

\* Collides as it would be with a break after a hit: a marble switched off
\* by a hit collides with no further block.
CollidesWhileActive(s, i, row, j) ==
    /\ s.marbles[i].active
    /\ s.blockStates[row][j] # "DEAD"
    /\ CheckCollision(s.marbles[i].model, s.blocks[row][j], DefaultRadius)

\* The condition of the if at the head of the inner loop's body.
Collides(s, i, row, j) ==
    /\ s.blockStates[row][j] # "DEAD"
    /\ CheckCollision(s.marbles[i].model, s.blocks[row][j], DefaultRadius)

\* HitBlock without blocks[row][j]->SetVisible(false) for the block that dies.
HitBlockKeepVisible(s, i, row, j) ==
    LET off == [s EXCEPT !.marbles[i].active = FALSE,
                         !.marbles[i].model = SetVisible(@, FALSE)]
    IN  IF s.blockStates[row][j] = "NORMAL"
        THEN [off EXCEPT !.blocks[row][j] = SetSkin(@, "red.jpg"),
                         !.blockStates[row][j] = "HIT_ONCE"]
        ELSE IF s.blockStates[row][j] = "HIT_ONCE"
        THEN [off EXCEPT !.blockStates[row][j] = "DEAD"]
        ELSE off

\* HitBlock with a NORMAL block destroyed by its first hit.
HitBlockOneHit(s, i, row, j) ==
    LET off == [s EXCEPT !.marbles[i].active = FALSE,
                         !.marbles[i].model = SetVisible(@, FALSE)]
    IN  IF s.blockStates[row][j] # "DEAD"
        THEN [off EXCEPT !.blockStates[row][j] = "DEAD",
                         !.blocks[row][j] = SetVisible(@, FALSE)]
        ELSE off

\* HitBlock without marbles[i].model->SetVisible(false).
HitBlockMarbleVisible(s, i, row, j) ==
    LET off == [s EXCEPT !.marbles[i].active = FALSE]
    IN  IF s.blockStates[row][j] = "NORMAL"
        THEN [off EXCEPT !.blocks[row][j] = SetSkin(@, "red.jpg"),
                         !.blockStates[row][j] = "HIT_ONCE"]
        ELSE IF s.blockStates[row][j] = "HIT_ONCE"
        THEN [off EXCEPT !.blockStates[row][j] = "DEAD",
                         !.blocks[row][j] = SetVisible(@, FALSE)]
        ELSE off

\* The body of that if: the marble is switched off, the block advances.
HitBlock(s, i, row, j) ==
    LET off == [s EXCEPT !.marbles[i].active = FALSE,
                         !.marbles[i].model = SetVisible(@, FALSE)]
    IN  IF s.blockStates[row][j] = "NORMAL"
        THEN [off EXCEPT !.blocks[row][j] = SetSkin(@, "red.jpg"),
                         !.blockStates[row][j] = "HIT_ONCE"]
        ELSE IF s.blockStates[row][j] = "HIT_ONCE"
        THEN [off EXCEPT !.blockStates[row][j] = "DEAD",
                         !.blocks[row][j] = SetVisible(@, FALSE)]
        ELSE off

\* The two block loops for marble i from the k-th block on. Neither loop has
\* a break: the scan goes on after a hit.
RECURSIVE CollideFrom(_, _, _)
CollideFrom(s, i, k) ==
    IF k > Len(BlockOrder) THEN s
    ELSE LET row == BlockOrder[k][1]
             j == BlockOrder[k][2]
         IN  CollideFrom(IF Collides(s, i, row, j) THEN HitBlock(s, i, row, j) ELSE s,
                         i, k + 1)

\* MarbleStep with the bounds test GetZ() >= 30.
MarbleStepAtLimit(s, i) ==
    IF ~s.marbles[i].active THEN s
    ELSE LET moved == [s EXCEPT !.marbles[i].model = MoveZ(@, kMarbleSpeed)]
         IN  IF moved.marbles[i].model.z >= OutOfBoundsZ
             THEN [moved EXCEPT !.marbles[i].active = FALSE,
                                !.marbles[i].model = SetVisible(@, FALSE)]
             ELSE CollideFrom(moved, i, 1)

\* MarbleStep without the out-of-bounds removal.
MarbleStepNoBounds(s, i) ==
    IF ~s.marbles[i].active THEN s
    ELSE CollideFrom([s EXCEPT !.marbles[i].model = MoveZ(@, kMarbleSpeed)], i, 1)

\* The body of the marble loop for slot i.
MarbleStep(s, i) ==
    IF ~s.marbles[i].active THEN s
    ELSE LET moved == [s EXCEPT !.marbles[i].model = MoveZ(@, kMarbleSpeed)]
         IN  IF moved.marbles[i].model.z > OutOfBoundsZ
             THEN [moved EXCEPT !.marbles[i].active = FALSE,
                                !.marbles[i].model = SetVisible(@, FALSE)]
             ELSE CollideFrom(moved, i, 1)

\* The marble loop from slot i on.
RECURSIVE MoveMarbles(_, _)
MoveMarbles(s, i) ==
    IF i >= kMaxMarbles THEN s ELSE MoveMarbles(MarbleStep(s, i), i + 1)

\* AllDead with allDead = true set anew for each row: the last row decides.
AllDeadLastRow(s) ==
    \A j \in Cols : s.blockStates[kNumRows - 1][j] = "DEAD"

\* The allDead loops: a row's scan stops at its first block that is not DEAD
\* (the break leaves the inner loop only), having cleared allDead.
AllDead(s) ==
    ~ \E row \in Rows : \E j \in Cols :
         /\ s.blockStates[row][j] # "DEAD"
         /\ \A jj \in 0 .. (j - 1) : s.blockStates[row][jj] = "DEAD"

\* The win check at the end of UpdateGame.
WinCheck(s) ==
    IF AllDead(s)
    THEN [s EXCEPT !.currentState = "OVER", !.gameOverText = [visible |-> TRUE]]
    ELSE s

\* UpdateGame with the restart key polled first, before the fire key.
UpdateGameRestartFirst(s, space, zero) ==
    LET restarted == IF zero THEN RestartGame(s) ELSE s
        fired == IF space THEN ShootMarble(restarted) ELSE restarted
        moved == MoveMarbles(fired, 0)
    IN  WinCheck(moved)

\* UpdateGame() with KeyHit(Key_Space) = space and KeyHit(Key_0) = zero.
UpdateGame(s, space, zero) ==
    LET fired == IF space THEN ShootMarble(s) ELSE s
        moved == MoveMarbles(fired, 0)
        restarted == IF zero THEN RestartGame(moved) ELSE moved
    IN  WinCheck(restarted)

\* Update with Key_Escape polled in every state.
UpdateQuitAnywhere(s, space, zero, escape) ==
    LET u == CASE s.currentState = "MENU" ->
                    IF space THEN [s EXCEPT !.currentState = "GAME"] ELSE s
               [] s.currentState = "GAME" -> UpdateGame(s, space, zero)
               [] s.currentState = "OVER" -> IF zero THEN RestartGame(s) ELSE s
    IN  IF escape THEN [u EXCEPT !.running = FALSE] ELSE u

\* Update without the break that ends case MENU: the start frame falls
\* through into UpdateGame.
UpdateMenuFallsThrough(s, space, zero, escape) ==
    CASE s.currentState = "MENU" ->
           IF space THEN UpdateGame([s EXCEPT !.currentState = "GAME"], space, zero)
           ELSE UpdateGame(s, space, zero)
      [] s.currentState = "GAME" -> UpdateGame(s, space, zero)
      [] s.currentState = "OVER" ->
           LET r == IF zero THEN RestartGame(s) ELSE s
           IN  IF escape THEN [r EXCEPT !.running = FALSE] ELSE r

\* Update() with the three KeyHit results of the frame.
Update(s, space, zero, escape) ==
    CASE s.currentState = "MENU" ->
           IF space THEN [s EXCEPT !.currentState = "GAME"] ELSE s
      [] s.currentState = "GAME" -> UpdateGame(s, space, zero)
      [] s.currentState = "OVER" ->
           LET r == IF zero THEN RestartGame(s) ELSE s
           IN  IF escape THEN [r EXCEPT !.running = FALSE] ELSE r

Load(s) ==
    /\ currentState = s.currentState
    /\ marbles = s.marbles
    /\ blocks = s.blocks
    /\ blockStates = s.blockStates
    /\ gameOverText = s.gameOverText
    /\ running = s.running

\* No call of CheckCollision outside UpdateGame.
NoProbe ==
    [m1 |-> [x |-> 0, y |-> 0, z |-> 0, visible |-> TRUE],
     m2 |-> [x |-> 0, y |-> 0, z |-> 0, visible |-> TRUE],
     called |-> FALSE, result |-> FALSE]

Init == Load(SetupScene) /\ spaceHits = 0 /\ streak = 0 /\ probe = NoProbe

\* The results KeyHit(Key_Space) can give in a frame: any, within the player's
\* bounds. KeyHit(Key_0) and KeyHit(Key_Escape) can give any result.
SpaceInputs ==
    IF currentState # "GAME" \/ spaceHits < MaxShots
          \/ (streak > 0 /\ streak < MaxBurst)
    THEN BOOLEAN ELSE {FALSE}

\* One iteration of main's while loop: the keys hit since the last frame, then
\* Update().
Frame(space, zero, escape) ==
    /\ running
    /\ \E t \in {Update(State, space, zero, escape)} :
         /\ currentState' = t.currentState
         /\ marbles' = t.marbles
         /\ blocks' = t.blocks
         /\ blockStates' = t.blockStates
         /\ gameOverText' = t.gameOverText
         /\ running' = t.running
    /\ spaceHits' = CASE currentState = "MENU" -> spaceHits
                      [] currentState = "GAME" ->
                           IF zero THEN 0
                           ELSE IF space THEN spaceHits + 1 ELSE spaceHits
                      [] currentState = "OVER" -> IF zero THEN 0 ELSE spaceHits
    /\ streak' = IF currentState = "GAME" /\ space /\ ~zero
                    /\ (streak > 0 \/ InactiveSlots(State) = MarbleIds)
                 THEN streak + 1 ELSE 0
    /\ UNCHANGED probe

Next == \E space \in SpaceInputs, zero \in BOOLEAN, escape \in BOOLEAN :
            Frame(space, zero, escape)

Spec == Init /\ [][Next]_vars

\* The blocks a preset grid may leave standing.
PresetBlocks == {<<0, 2>>, <<1, 3>>}

\* Block grids to start UpdateGame's win check from: the grid of SetupScene,
\* and the grids with one block of PresetBlocks left (NORMAL or HIT_ONCE) and
\* the other nine DEAD. Play alone never gets there: see the lane of x = 0.
GridInputs ==
    {SetupScene.blockStates} \cup
    {[row \in Rows |-> [i \in Cols |-> IF <<row, i>> = b THEN st ELSE "DEAD"]] :
        b \in PresetBlocks, st \in {"NORMAL", "HIT_ONCE"}}

\* The scene of SetupScene with the block grid preset to g, each block shown
\* as the code shows a block of that state.
SetupGrid(g) ==
    [SetupScene EXCEPT
       !.blockStates = g,
       !.blocks = [row \in Rows |-> [i \in Cols |->
                     [SetupScene.blocks[row][i] EXCEPT
                        !.visible = (g[row][i] # "DEAD"),
                        !.skin = IF g[row][i] = "NORMAL" THEN "mesh" ELSE "red.jpg"]]]]

InitGrid ==
    /\ \E g \in GridInputs : Load(SetupGrid(g))
    /\ spaceHits = 0 /\ streak = 0 /\ probe = NoProbe

SpecGrid == InitGrid /\ [][Next]_vars

\* The models CheckCollision is called on directly.
ProbeModels ==
    [x : 0 .. MaxCoord, y : 0 .. MaxHeight, z : 0 .. MaxCoord, visible : {TRUE}]

InitCollision ==
    /\ Load(SetupScene) /\ spaceHits = 0 /\ streak = 0
    /\ probe \in [m1 : ProbeModels, m2 : ProbeModels, called : {FALSE}, result : {FALSE}]

\* A call CheckCollision(m1, m2) with the default radius.
CallCheckCollision ==
    /\ ~probe.called
    /\ probe' = [probe EXCEPT !.called = TRUE,
                              !.result = CheckCollision(probe.m1, probe.m2, DefaultRadius)]
    /\ UNCHANGED <<currentState, marbles, blocks, blockStates, gameOverText,
                   running, spaceHits, streak>>

SpecCollision == InitCollision /\ [][CallCheckCollision]_vars

(***************************************************************************)
(* Properties.                                                             *)
(***************************************************************************)

EveryBlockDead == \A row \in Rows : \A j \in Cols : blockStates[row][j] = "DEAD"

\* The state after the fire step of UpdateGame.
AfterFire(space) == IF space THEN ShootMarble(State) ELSE State

\* The state of a GAME frame when the marble loop reaches slot i.
RECURSIVE BeforeMarble(_, _)
BeforeMarble(s, i) == IF i = 0 THEN s ELSE MarbleStep(BeforeMarble(s, i - 1), i - 1)

\* The blocks whose state the marble loop's body for slot i changes.
DamagedBy(s, i) ==
    LET a == BeforeMarble(s, i)
        b == MarbleStep(a, i)
    IN  {rc \in Rows \X Cols : a.blockStates[rc[1]][rc[2]] # b.blockStates[rc[1]][rc[2]]}

\* Ground-plane overlap of a marble and a block, radius 1 each.
Overlap(m, b) ==
    (m.x - b.x) * (m.x - b.x) + (m.z - b.z) * (m.z - b.z) < HalfUnits(2) * HalfUnits(2)

Rank(st) == CASE st = "NORMAL" -> 0 [] st = "HIT_ONCE" -> 1 [] st = "DEAD" -> 2

\* C1: at the end of every frame the phase is OVER if and only if all 10
\* blocks are DEAD (9 DEAD and one standing: not OVER; 10 DEAD: OVER; no
\* block stands while the phase is OVER).
C1_OverIffAllDead == (currentState = "OVER") <=> EveryBlockDead

\* C1 witness: a frame has killed the last block and the phase is OVER.
C1_Witness == currentState = "OVER" /\ EveryBlockDead /\ gameOverText.visible

\* C2: in a GAME frame each marble advances the state of at most one block.
C2_OneBlockPerMarble ==
    (running /\ currentState = "GAME") =>
        \A space \in SpaceInputs : \A i \in MarbleIds :
            Cardinality(DamagedBy(AfterFire(space), i)) <= 1

\* C3: a frame without the restart signal never moves a block's state back
\* (NORMAL -> HIT_ONCE -> DEAD only), and a marble that overlaps a DEAD block
\* after its move stays active while the block stays DEAD.
C3_Monotonic ==
    running =>
        \A space \in SpaceInputs, escape \in BOOLEAN :
            LET t == Update(State, space, FALSE, escape)
                fired == AfterFire(space)
            IN  /\ \A row \in Rows, j \in Cols :
                      Rank(t.blockStates[row][j]) >= Rank(blockStates[row][j])
                /\ currentState = "GAME" =>
                      \A i \in MarbleIds, row \in Rows, j \in Cols :
                          ( /\ fired.marbles[i].active
                            /\ t.marbles[i].model.z <= OutOfBoundsZ
                            /\ blockStates[row][j] = "DEAD"
                            /\ Overlap(t.marbles[i].model, blocks[row][j]) )
                          => /\ t.marbles[i].active
                             /\ t.blockStates[row][j] = "DEAD"

\* C3 witness: an active marble is passing through a DEAD block.
C3_Witness ==
    \E i \in MarbleIds, row \in Rows, j \in Cols :
        /\ currentState = "GAME"
        /\ marbles[i].active
        /\ blockStates[row][j] = "DEAD"
        /\ Overlap(marbles[i].model, blocks[row][j])

ActiveCount == Cardinality({i \in MarbleIds : marbles[i].active})

Min(a, b) == IF a < b THEN a ELSE b

\* The last frame of a burst in which its first marble, then at z = 8, has
\* not yet reached a block: the blocks nearest to the launch origin are first
\* touched at z = 8.5.
SafeBurst == HalfUnits(8)

\* C4 as stated: from an empty pool, N fire signals in N consecutive GAME
\* frames leave exactly min(N, 3) marbles active, for every N; a fire signal
\* with all 3 slots active activates nothing; at most 3 marbles are active.
C4_BurstAnyLength ==
    /\ streak > 0 => ActiveCount = Min(streak, kMaxMarbles)
    /\ InactiveSlots(State) = {} => ShootMarble(State) = State
    /\ ActiveCount <= kMaxMarbles

\* C4 amended: the same for N <= 16, that is, while the first marble of the
\* burst has not reached a block.
C4_BurstBeforeFirstHit ==
    /\ (streak > 0 /\ streak <= SafeBurst) => ActiveCount = Min(streak, kMaxMarbles)
    /\ InactiveSlots(State) = {} => ShootMarble(State) = State
    /\ ActiveCount <= kMaxMarbles

\* C4 witness: 16 fire signals in 16 frames, the last 13 with the pool full.
C4_Witness == streak = SafeBurst /\ ActiveCount = kMaxMarbles

\* C5: RestartGame, applied in any state of phase GAME or OVER, gives all 10
\* blocks NORMAL and visible at their grid positions, all 3 marbles inactive,
\* invisible and at the origin, the game-over text hidden and the phase GAME;
\* applied to its own result it changes nothing.
C5_RestartResets ==
    currentState \in {"GAME", "OVER"} =>
        LET r == RestartGame(State) IN
        /\ \A row \in Rows, j \in Cols :
              /\ r.blockStates[row][j] = "NORMAL"
              /\ r.blocks[row][j].visible
              /\ r.blocks[row][j].x = j * HalfUnits(2) - HalfUnits(5)
              /\ r.blocks[row][j].y = 0
              /\ r.blocks[row][j].z = row * HalfUnits(5) + HalfUnits(10)
        /\ \A i \in MarbleIds :
              /\ ~r.marbles[i].active
              /\ ~r.marbles[i].model.visible
              /\ r.marbles[i].model.x = 0
              /\ r.marbles[i].model.y = 0
              /\ r.marbles[i].model.z = 0
        /\ ~r.gameOverText.visible
        /\ r.currentState = "GAME"
        /\ RestartGame(r) = r

\* C5 witness: the phase is OVER with a marble still in flight and another
\* left where it hit, the state a restart has most to undo.
C5_Witness ==
    /\ currentState = "OVER"
    /\ \E i \in MarbleIds : marbles[i].active
    /\ \E i \in MarbleIds : ~marbles[i].active /\ marbles[i].model.z # 0

\* C6: in a GAME frame a marble that is active before and after has z
\* increased by exactly the speed 0.5 and x unchanged (a marble fired in the
\* frame ends it at z = 0.5); a marble whose z after the move exceeds 30 is
\* inactive after the frame; a marble switched off by a frame that moved it
\* next to no standing block has z > 30; so no active marble has z > 30.
C6_MarbleFlight ==
    [][currentState = "GAME" =>
        \A i \in MarbleIds :
          LET z0 == marbles[i].model.z
              z1 == marbles'[i].model.z
          IN  /\ (marbles[i].active /\ marbles'[i].active) =>
                    (z1 = z0 + kMarbleSpeed /\ marbles'[i].model.x = marbles[i].model.x)
              /\ (~marbles[i].active /\ marbles'[i].active) =>
                    (z1 = kMarbleSpeed /\ marbles'[i].model.x = 0)
              /\ (marbles[i].active /\ z0 + kMarbleSpeed > HalfUnits(30)) =>
                    ~marbles'[i].active
              /\ ( /\ marbles[i].active /\ ~marbles'[i].active
                   /\ z1 = z0 + kMarbleSpeed
                   /\ ~ \E row \in Rows, j \in Cols :
                          /\ blockStates[row][j] # "DEAD"
                          /\ Overlap(marbles'[i].model, blocks[row][j]) )
                 => z1 > HalfUnits(30)
              /\ marbles'[i].active => z1 <= HalfUnits(30)
    ]_vars

\* C6 witness: a marble has been removed at z = 30.5, one frame after it was
\* active at z = 30.
C6_Witness ==
    \E i \in MarbleIds :
        ~marbles[i].active /\ marbles[i].model.z = HalfUnits(30) + kMarbleSpeed

\* The squared ground-plane distance of two models, in squared half units.
GroundDistSq(m1, m2) ==
    (m1.x - m2.x) * (m1.x - m2.x) + (m1.z - m2.z) * (m1.z - m2.z)

\* C7: CheckCollision(m1, m2) with radius 1 is true exactly when
\* dx*dx + dz*dz < 4 (16 in squared half units), whatever the heights: false
\* at horizontal distance exactly 2, true below it, and the same for (m2, m1).
C7_CollisionThreshold ==
    probe.called =>
        /\ probe.result <=> (GroundDistSq(probe.m1, probe.m2) < HalfUnits(2) * HalfUnits(2))
        /\ probe.result <=> CheckCollision(probe.m2, probe.m1, DefaultRadius)

\* C7 witness: a call at horizontal distance exactly 2, at different heights,
\* has returned false.
C7_Witness ==
    /\ probe.called /\ ~probe.result
    /\ GroundDistSq(probe.m1, probe.m2) = HalfUnits(2) * HalfUnits(2)
    /\ probe.m1.y # probe.m2.y

\* C8: a block is visible if and only if its state is not DEAD.
C8_VisibleIffNotDead ==
    \A row \in Rows, j \in Cols :
        blocks[row][j].visible <=> (blockStates[row][j] # "DEAD")

\* C8 witness: a block has been destroyed and another is standing after a hit.
C8_Witness ==
    /\ \E row \in Rows, j \in Cols : blockStates[row][j] = "DEAD"
    /\ \E row \in Rows, j \in Cols : blockStates[row][j] = "HIT_ONCE"

\* What each key does in each phase: the start signal alone leaves MENU, the
\* restart signal alone leaves OVER (for GAME), a GAME frame ends in OVER
\* exactly when it ends with every block DEAD, the quit signal changes
\* nothing in MENU and GAME and stops the loop in OVER.
C9_Signals ==
    running =>
      /\ currentState = "MENU" =>
            \A zero \in BOOLEAN :
               /\ Update(State, FALSE, zero, FALSE) = State
               /\ Update(State, TRUE, zero, FALSE).currentState = "GAME"
               /\ \A space \in BOOLEAN :
                     Update(State, space, zero, TRUE) = Update(State, space, zero, FALSE)
      /\ currentState = "GAME" =>
            \A space \in SpaceInputs, zero \in BOOLEAN :
               LET t == Update(State, space, zero, FALSE) IN
               /\ t.currentState \in {"GAME", "OVER"}
               /\ t.currentState = "OVER" <=>
                     \A row \in Rows, j \in Cols : t.blockStates[row][j] = "DEAD"
               /\ Update(State, space, zero, TRUE) = t
      /\ currentState = "OVER" =>
            \A space \in BOOLEAN, zero \in BOOLEAN, escape \in BOOLEAN :
               LET t == Update(State, space, zero, escape) IN
               /\ t.currentState = (IF zero THEN "GAME" ELSE "OVER")
               /\ t.running = ~escape

\* C9: the phase starts as MENU; the only phase changes are MENU -> GAME,
\* GAME -> OVER with every block DEAD, and OVER -> GAME (a restart: every
\* block NORMAL); MENU is never re-entered; the loop stops only in a frame
\* that starts in OVER; and each key acts as C9_Signals says.
C9_PhaseMachine ==
    /\ currentState = "MENU"
    /\ [][ /\ currentState' # currentState =>
                \/ currentState = "MENU" /\ currentState' = "GAME"
                \/ currentState = "GAME" /\ currentState' = "OVER" /\ EveryBlockDead'
                \/ /\ currentState = "OVER" /\ currentState' = "GAME"
                   /\ \A row \in Rows, j \in Cols : blockStates'[row][j] = "NORMAL"
           /\ running' # running => (currentState = "OVER" /\ ~running')
         ]_vars
    /\ []C9_Signals

\* C9 witness: the quit signal has stopped the loop in phase OVER.
C9_Witness == ~running /\ currentState = "OVER"

\* C10: ShootMarble, called in a GAME frame, launches the lowest-index
\* inactive slot (active, visible, at the origin) and changes nothing else;
\* with all 3 slots active it changes nothing.
C10_ShootMarbleEffect ==
    currentState = "GAME" =>
        LET t == ShootMarble(State)
            free == {i \in MarbleIds : ~marbles[i].active}
        IN  IF free = {} THEN t = State
            ELSE \E i \in free :
                   /\ \A k \in free : i <= k
                   /\ t.marbles[i].active
                   /\ t.marbles[i].model.visible
                   /\ t.marbles[i].model.x = 0
                   /\ t.marbles[i].model.y = 0
                   /\ t.marbles[i].model.z = 0
                   /\ \A k \in MarbleIds \ {i} : t.marbles[k] = marbles[k]
                   /\ t.blocks = blocks
                   /\ t.blockStates = blockStates
                   /\ t.currentState = currentState
                   /\ t.gameOverText = gameOverText
                   /\ t.running = running

\* C10 witness: slots 0 and 2 are in flight and slot 1 lies where it hit a
\* block, so the slot to launch is neither the first nor at the origin.
C10_Witness ==
    /\ currentState = "GAME"
    /\ marbles[0].active /\ marbles[2].active
    /\ ~marbles[1].active /\ marbles[1].model.z # 0

\* C11: in a GAME frame no block advances by more than one step, whatever
\* marbles are active (never NORMAL -> DEAD in one frame), and each marble
\* advances every block it collides with by exactly one step and no other
\* block at all.
C11_OneStepPerFrame ==
    (running /\ currentState = "GAME") =>
        \A space \in SpaceInputs :
            LET fired == AfterFire(space)
                after == MoveMarbles(fired, 0)
            IN  /\ \A row \in Rows, j \in Cols :
                      Rank(after.blockStates[row][j]) - Rank(blockStates[row][j]) \in {0, 1}
                /\ \A i \in MarbleIds :
                      LET a == BeforeMarble(fired, i)
                          b == MarbleStep(a, i)
                      IN  \A row \in Rows, j \in Cols :
                            Rank(b.blockStates[row][j]) - Rank(a.blockStates[row][j]) =
                               IF /\ a.marbles[i].active
                                  /\ b.marbles[i].model.z <= HalfUnits(30)
                                  /\ a.blockStates[row][j] # "DEAD"
                                  /\ Overlap(b.marbles[i].model, a.blocks[row][j])
                               THEN 1 ELSE 0

\* C11 witness: two marbles fired in consecutive frames have hit blocks[0][2]
\* in two consecutive frames and destroyed it, with a third marble one frame
\* behind them.
C11_Witness ==
    /\ blockStates[0][2] = "DEAD"
    /\ \E i, k, n \in MarbleIds :
          /\ i # k
          /\ ~marbles[i].active /\ ~marbles[k].active
          /\ marbles[i].model.z = marbles[k].model.z
          /\ marbles[n].active
          /\ marbles[n].model.z = marbles[i].model.z - kMarbleSpeed

\* C12: a GAME frame with the restart signal ends with all blocks NORMAL, all
\* marbles inactive and the phase GAME, with or without the fire signal and
\* whatever the marbles hit in the frame, the last standing block included.
C12_RestartWinsFrame ==
    (running /\ currentState = "GAME") =>
        \A space \in BOOLEAN :
            LET t == Update(State, space, TRUE, FALSE) IN
            /\ \A row \in Rows, j \in Cols : t.blockStates[row][j] = "NORMAL"
            /\ \A i \in MarbleIds : ~t.marbles[i].active
            /\ t.currentState = "GAME"
            /\ ~t.gameOverText.visible

\* C12 witness: a GAME state whose marble loop kills the last standing block.
C12_Witness ==
    /\ running /\ currentState = "GAME"
    /\ \E row \in Rows, j \in Cols : blockStates[row][j] # "DEAD"
    /\ \A row \in Rows, j \in Cols : MoveMarbles(State, 0).blockStates[row][j] = "DEAD"

\* C13: a MENU frame changes nothing but the phase, and that only on the
\* start signal (no marble is fired: all marbles are inactive in MENU and on
\* entering GAME); an OVER frame without the restart signal changes no marble,
\* no block and not the phase, with or without the fire signal.
C13_GatedInputs ==
    running =>
      /\ currentState = "MENU" =>
            /\ \A i \in MarbleIds : ~marbles[i].active
            /\ \A space \in BOOLEAN, zero \in BOOLEAN, escape \in BOOLEAN :
                  Update(State, space, zero, escape) =
                     [State EXCEPT !.currentState = IF space THEN "GAME" ELSE "MENU"]
      /\ currentState = "OVER" =>
            \A space \in BOOLEAN, escape \in BOOLEAN :
               LET t == Update(State, space, FALSE, escape) IN
               /\ t.marbles = marbles
               /\ t.blocks = blocks
               /\ t.blockStates = blockStates
               /\ t.currentState = "OVER"
               /\ t.gameOverText = gameOverText

\* C13 witness: the phase is OVER with a marble stopped in flight, which no
\* OVER frame moves.
C13_Witness ==
    /\ running /\ currentState = "OVER"
    /\ \E i \in MarbleIds : marbles[i].active /\ marbles[i].model.z > 0

\* C14: every marble slot is freed within 61 frames of its launch, while the
\* phase stays GAME. z counts the frames: a marble ends the frame of its
\* launch at z = 0.5, every further GAME frame that leaves it active adds
\* exactly 0.5, and no active marble has z > 30 (60 steps of 0.5), so a marble
\* is active at the end of at most 60 frames in a row. With a slot free the
\* fire signal activates a marble.
C14_SlotsFreed ==
    /\ [](\A i \in MarbleIds :
            marbles[i].active =>
               (marbles[i].model.z >= kMarbleSpeed /\ marbles[i].model.z <= HalfUnits(30)))
    /\ [][\A i \in MarbleIds :
            (currentState = "GAME" /\ marbles'[i].active) =>
               marbles'[i].model.z =
                  IF marbles[i].active THEN marbles[i].model.z + kMarbleSpeed
                  ELSE kMarbleSpeed]_vars
    /\ []((currentState = "GAME" /\ InactiveSlots(State) # {}) =>
             InactiveSlots(ShootMarble(State)) # InactiveSlots(State))

\* C14 witness: a slot of the exhausted pool has been freed by the bounds
\* test, at z = 30.5 in the 61st frame after its launch, while another marble
\* is still in flight.
C14_Witness ==
    /\ currentState = "GAME"
    /\ \E i \in MarbleIds :
          ~marbles[i].active /\ marbles[i].model.z = HalfUnits(30) + kMarbleSpeed
    /\ \E k \in MarbleIds : marbles[k].active

\* C15: the game-over text is visible if and only if the phase is OVER.
C15_TextIffOver == gameOverText.visible <=> (currentState = "OVER")

\* C15 witness: the win check has shown the text, with a marble of the won
\* game still in flight.
C15_Witness ==
    /\ currentState = "OVER" /\ gameOverText.visible /\ running
    /\ \E i \in MarbleIds : marbles[i].active

\* The columns whose blocks a marble on the line x = 0 can reach.
LaneCols == {2, 3}

\* C16: from SetupScene every marble stays on the line x = 0 and every block
\* at its grid position, so a marble is within collision range of a block only
\* in columns 2 and 3; the blocks of columns 0, 1 and 4 of both rows are NORMAL
\* and visible, the all-DEAD condition does not hold, the phase is not OVER,
\* and the loop is running and no frame's quit signal stops it.
C16_OnlyLaneReachable ==
    /\ \A i \in MarbleIds : marbles[i].model.x = 0
    /\ \A row \in Rows, j \in Cols :
          /\ blocks[row][j].x = BlockX(j) /\ blocks[row][j].z = BlockZ(row)
          /\ \A i \in MarbleIds :
                CheckCollision(marbles[i].model, blocks[row][j], DefaultRadius) =>
                   j \in LaneCols
    /\ \A row \in Rows, j \in Cols \ LaneCols :
          blockStates[row][j] = "NORMAL" /\ blocks[row][j].visible
    /\ ~AllDead(State)
    /\ currentState # "OVER"
    /\ running
    /\ \A space \in BOOLEAN, zero \in BOOLEAN :
          Update(State, space, zero, TRUE).running

\* C16 witness: the whole lane, columns 2 and 3 of both rows, has been
\* destroyed and a further marble is flying past row 1 in phase GAME.
C16_Witness ==
    /\ currentState = "GAME"
    /\ \A row \in Rows, j \in LaneCols : blockStates[row][j] = "DEAD"
    /\ \E i \in MarbleIds : marbles[i].active /\ marbles[i].model.z > BlockZ(1)

\* C17: the blocks of columns 2 and 3 of a row have equal states in every
\* reachable state, and a frame takes a row-1 block of the lane out of NORMAL
\* only from a state in which both row-0 blocks of the lane are DEAD.
C17_RowZeroFirst ==
    /\ [](\A row \in Rows : blockStates[row][2] = blockStates[row][3])
    /\ [][\A j \in LaneCols :
            (blockStates[1][j] = "NORMAL" /\ blockStates'[1][j] # "NORMAL") =>
               (blockStates[0][2] = "DEAD" /\ blockStates[0][3] = "DEAD")]_vars

\* C17 witness: row 1 of the lane has taken its first hit, the marble that
\* hit it lying switched off at z = 13.5, behind the destroyed row 0.
C17_Witness ==
    /\ blockStates[1][2] = "HIT_ONCE" /\ blockStates[1][3] = "HIT_ONCE"
    /\ blockStates[0][2] = "DEAD" /\ blockStates[0][3] = "DEAD"
    /\ \E i \in MarbleIds :
          ~marbles[i].active /\ marbles[i].model.z = BlockZ(1) - 3

\* C18: a marble is visible if and only if it is active, and so it is after a
\* restart and after a shot taken from the current state.
C18_VisibleIffActive ==
    /\ \A i \in MarbleIds : marbles[i].model.visible <=> marbles[i].active
    /\ \A i \in MarbleIds :
          /\ RestartGame(State).marbles[i].model.visible <=>
                RestartGame(State).marbles[i].active
          /\ ShootMarble(State).marbles[i].model.visible <=>
                ShootMarble(State).marbles[i].active

\* C18 witness: a marble lies switched off and hidden where it hit row 0,
\* while a marble fired later is active and visible beyond the destroyed row.
C18_Witness ==
    /\ \E i \in MarbleIds :
          /\ ~marbles[i].active /\ ~marbles[i].model.visible
          /\ marbles[i].model.z = BlockZ(0) - 3
    /\ \E i \in MarbleIds :
          /\ marbles[i].active /\ marbles[i].model.visible
          /\ marbles[i].model.z > BlockZ(0)

====
